---- MODULE Spec2Model ----
(***************************************************************************)
(* A model of schemars-zod (src/src/lib.rs): merge_schemas, which folds    *)
(* several RootSchema values into one definition table, and convert, which *)
(* renders every definition of a RootSchema as zod source text.            *)
(*                                                                         *)
(* Encoding of the Rust values:                                            *)
(*   Option<T>            <<>> is None, <<x>> is Some(x)                   *)
(*   String (emitted)     a TLA+ string, built with \o as format! builds   *)
(*   String (reference)   the sequence of its segments, so that            *)
(*                        str::replace can be modelled on it               *)
(*   serde_json::Value    [kind, repr]: a number or a string literal       *)
(*   SingleOrVec<T>       [single |-> BOOLEAN, ...] with the payload       *)
(*   Map<String, Schema>  (definitions) a total function Names ->          *)
(*                        Option<Schema>; (properties) the sequence of its *)
(*                        entries in the map's iteration order             *)
(*   a call's result      [tag, text, infer]: tag "Some" (text), "None"    *)
(*                        (absence) or "Panic" (an unwrap() on None);      *)
(*                        infer records the value all_schemas_share_a_field*)
(*                        returned when the node went through the oneOf    *)
(*                        rule (<<>> when that rule was not taken)         *)
(* Schema::Bool(_).into_object() has none of the fields the conversion     *)
(* reads, so it is the node EmptySchema. convert visits the definitions in  *)
(* the map's order, which the model leaves open (any id not yet visited).   *)
(* Operators that model a Rust function return the SET of results the      *)
(* function can produce: std::collections::HashSet iterates in an order    *)
(* that depends on its per-instance random hasher keys.                    *)
(***************************************************************************)
EXTENDS Naturals, Sequences, FiniteSets

VARIABLES
    schemas,      \* merge_schemas: the input iterator's items, as a sequence
    idx,          \* merge_schemas: position of the `for schema in schemas` loop
    merged,       \* merge_schemas: `merged`; then convert's argument `schema`
    pc,           \* "merge", "ready", "convert", "done" or "panicked"
    todo,         \* convert: definition ids the loop has not visited yet
    definitions,  \* convert: the HashMap<String, String> being built
    last,         \* the most recent conversion that returned: the id and the result
    run,          \* how many times convert has been called on `merged`
    previous      \* the mapping the previous call of convert returned

vars == <<schemas, idx, merged, pc, todo, definitions, last, run, previous>>

(*************************** bounds of the model ***************************)
MaxLen == 2      \* longest oneOf / items / enum / type sequence drawn
MaxDocs == 2     \* longest input sequence of merge_schemas
MaxRuns == 2     \* calls of convert on one document

(******************************* Option ************************************)
None == <<>>
Some(x) == <<x>>
is_some(o) == Len(o) = 1
is_none(o) == Len(o) = 0
unwrap(o) == o[1]

(************************* results of a call *******************************)
Text(t) == [tag |-> "Some", text |-> t, infer |-> <<>>]
Absent == [tag |-> "None", text |-> "", infer |-> <<>>]
Panicked == [tag |-> "Panic", text |-> "", infer |-> <<>>]

(****************************** schema nodes *******************************)
DefinitionsPrefix == "#/definitions/"

EmptySchema ==
    [title |-> None, reference |-> None, enum_values |-> None,
     const_value |-> None, one_of |-> None, instance_type |-> None,
     format |-> None, object |-> None, array |-> None]

Single(t) == [single |-> TRUE, types |-> <<t>>]
Multiple(ts) == [single |-> FALSE, types |-> ts]

\* serde_json::to_string_pretty of a scalar: a string is quoted, a number is not
to_string_pretty(value) ==
    IF value.kind = "string" THEN "\"" \o value.repr \o "\"" ELSE value.repr

\* reference.replace("#/definitions/", ""): every occurrence is removed
RECURSIVE replace_definitions_prefix(_)
replace_definitions_prefix(reference) ==
    IF reference = <<>> THEN ""
    ELSE IF Head(reference) = DefinitionsPrefix
         THEN replace_definitions_prefix(Tail(reference))
         ELSE Head(reference) \o replace_definitions_prefix(Tail(reference))

(************************ discriminator inference **************************)
\* lines 155-164: one HashSet of property names per branch; FALSE in `ok`
\* when schema.object.unwrap() panics on a branch
branch_result(schema) ==
    IF schema.instance_type = Some(Single("object"))
    THEN IF is_none(schema.object)
         THEN [ok |-> FALSE, keys |-> {}]
         ELSE [ok |-> TRUE,
               keys |-> {unwrap(schema.object).properties[i].name :
                           i \in DOMAIN unwrap(schema.object).properties}]
    ELSE [ok |-> TRUE, keys |-> {}]

\* found_fields without the filter on the other sets
found_fields_unfiltered(results) == results[1].keys

\* lines 166-176: the names of the first set that every other set contains
found_fields(results) ==
    {prop_name \in results[1].keys :
        \A i \in 2..Len(results) : prop_name \in results[i].keys}

\* pick_field with the two preferences exchanged
pick_field_kind_first(found) ==
    IF "kind" \in found THEN {Text("kind")}
    ELSE IF "type" \in found THEN {Text("type")}
    ELSE IF found = {} THEN {Absent}
    ELSE {Text(x) : x \in found}

\* lines 178-184: `type`, else `kind`, else whatever found.iter().next() yields
pick_field(found) ==
    IF "type" \in found THEN {Text("type")}
    ELSE IF "kind" \in found THEN {Text("kind")}
    ELSE IF found = {} THEN {Absent}
    ELSE {Text(x) : x \in found}

all_schemas_share_a_field(any_of) ==
    LET results == [i \in DOMAIN any_of |-> branch_result(any_of[i])]
    IN  IF \E i \in DOMAIN any_of : ~results[i].ok THEN {Panicked}
        ELSE IF Len(any_of) = 0 THEN {Absent}
        ELSE pick_field(found_fields(results))

(***************************** node conversion *****************************)
RECURSIVE convert_schema_object_to_zod(_)
RECURSIVE one_of_loop(_, _, _)
RECURSIVE items_loop(_, _, _)
RECURSIVE properties_loop(_, _, _)
RECURSIVE instance_types_loop(_, _, _, _)
RECURSIVE enum_loop(_, _, _)

\* lines 104-107
convert_reference(reference) ==
    Text("z.lazy(() => " \o replace_definitions_prefix(reference) \o ")")

\* lines 120-125
enum_loop(rv, enum_values, i) ==
    IF i > Len(enum_values) THEN rv
    ELSE enum_loop(rv \o to_string_pretty(enum_values[i]) \o ", ", enum_values, i + 1)

\* lines 110-129
convert_enum_values(enum_values) ==
    IF Len(enum_values) = 1
    THEN Text("z.literal(" \o to_string_pretty(enum_values[1]) \o ")")
    ELSE Text(enum_loop("z.enum([", enum_values, 1) \o "])")

\* one_of_loop failing the node on a branch that does not convert
one_of_loop_strict(rv, one_of, i) ==
    IF i > Len(one_of) THEN {Text(rv)}
    ELSE UNION {
        IF generated.tag = "Panic" THEN {Panicked}
        ELSE IF generated.tag = "None" THEN {Absent}
        ELSE one_of_loop(rv \o generated.text \o ", ", one_of, i + 1)
        : generated \in convert_schema_object_to_zod(one_of[i]) }

\* lines 139-142: a branch that does not convert is skipped
one_of_loop(rv, one_of, i) ==
    IF i > Len(one_of) THEN {Text(rv)}
    ELSE UNION {
        IF generated.tag = "Panic" THEN {Panicked}
        ELSE IF generated.tag = "None" THEN one_of_loop(rv, one_of, i + 1)
        ELSE one_of_loop(rv \o generated.text \o ", ", one_of, i + 1)
        : generated \in convert_schema_object_to_zod(one_of[i]) }

\* lines 133-137
union_head(field) ==
    IF field.tag = "Some"
    THEN "z.discriminatedUnion('" \o field.text \o "', ["
    ELSE "z.union(["

\* lines 132-146
convert_one_of(one_of) ==
    UNION {
        IF field.tag = "Panic" THEN {[Panicked EXCEPT !.infer = <<field>>]}
        ELSE { IF r.tag = "Some"
               THEN [Text(r.text \o "])") EXCEPT !.infer = <<field>>]
               ELSE [r EXCEPT !.infer = <<field>>]
               : r \in one_of_loop(union_head(field), one_of, 1) }
        : field \in all_schemas_share_a_field(one_of) }

\* lines 260-264: an item that does not convert is skipped
items_loop(rv, items, i) ==
    IF i > Len(items) THEN {Text(rv)}
    ELSE UNION {
        IF generated.tag = "Panic" THEN {Panicked}
        ELSE IF generated.tag = "None" THEN items_loop(rv, items, i + 1)
        ELSE items_loop(rv \o generated.text \o ", ", items, i + 1)
        : generated \in convert_schema_object_to_zod(items[i]) }

\* the result of a nested call, as its caller sees it
plain(r) == [r EXCEPT !.infer = <<>>]

\* lines 246-269
convert_schema_or_ref_to_zod(schema, zod_mode) ==
    IF schema.single
    THEN {plain(r) : r \in convert_schema_object_to_zod(schema.schemas[1])}
    ELSE IF Len(schema.schemas) = 1
    THEN {plain(r) : r \in convert_schema_object_to_zod(schema.schemas[1])}
    ELSE { IF r.tag = "Some" THEN Text(r.text \o "])") ELSE r
           : r \in items_loop("z." \o zod_mode \o "([", schema.schemas, 1) }

\* lines 229-244
convert_array_type_to_zod(array_type) ==
    IF is_none(array_type.items) THEN {Absent}
    ELSE IF is_some(array_type.min_items) /\ array_type.min_items = array_type.max_items
    THEN convert_schema_or_ref_to_zod(unwrap(array_type.items), "tuple")
    ELSE { IF generated.tag = "Some"
           THEN Text("z.array(" \o generated.text \o ")")
           ELSE generated
           : generated \in convert_schema_or_ref_to_zod(unwrap(array_type.items), "union") }

\* lines 286-289: a property that does not convert fails the object
properties_loop(rv, properties, i) ==
    IF i > Len(properties) THEN {Text(rv)}
    ELSE UNION {
        IF property_type.tag = "Panic" THEN {Panicked}
        ELSE IF property_type.tag = "None" THEN {Absent}
        ELSE properties_loop(rv \o properties[i].name \o ": " \o property_type.text \o ", ",
                             properties, i + 1)
        : property_type \in convert_schema_object_to_zod(properties[i].schema) }

\* lines 271-294
convert_object_type_to_zod(object_type) ==
    IF is_some(object_type.additional_properties) /\ Len(object_type.properties) = 0
    THEN { IF r.tag = "Some" THEN Text("z.record(" \o r.text \o ")") ELSE plain(r)
           : r \in convert_schema_object_to_zod(unwrap(object_type.additional_properties)) }
    ELSE { IF r.tag = "Some" THEN Text(r.text \o "})") ELSE r
           : r \in properties_loop("z.object({", object_type.properties, 1) }

\* lines 213-226: the dispatch on the category
convert_category(instance_type, schema) ==
    CASE instance_type = "null" -> {Text("z.null()")}
      [] instance_type = "boolean" -> {Text("z.boolean()")}
      [] instance_type = "object" ->
            IF is_none(schema.object) THEN {Panicked}
            ELSE convert_object_type_to_zod(unwrap(schema.object))
      [] instance_type = "array" ->
            IF is_none(schema.array) THEN {Panicked}
            ELSE convert_array_type_to_zod(unwrap(schema.array))
      [] instance_type = "number" -> {Text("z.number()")}
      [] instance_type = "string" ->
            IF schema.format = Some("date-time") THEN {Text("z.coerce.date()")}
            ELSE {Text("z.string()")}
      [] instance_type = "integer" -> {Text("z.number().int()")}

\* lines 202-227
convert_single_instance_type_schema_to_zod(instance_type, schema) ==
    IF is_some(schema.const_value)
    THEN {Text("z.literal(" \o to_string_pretty(unwrap(schema.const_value)) \o ")")}
    ELSE convert_category(instance_type, schema)

\* lines 303-306: a category that does not convert fails the node
instance_types_loop(rv, instance_types, schema, i) ==
    IF i > Len(instance_types) THEN {Text(rv)}
    ELSE UNION {
        IF generated.tag = "Panic" THEN {Panicked}
        ELSE IF generated.tag = "None" THEN {Absent}
        ELSE instance_types_loop(rv \o generated.text \o ", ", instance_types, schema, i + 1)
        : generated \in convert_single_instance_type_schema_to_zod(instance_types[i], schema) }

\* lines 296-311
convert_union_type_schema_to_zod(instance_types, schema) ==
    { IF r.tag = "Some" THEN Text(r.text \o "])") ELSE r
      : r \in instance_types_loop("z.union([", instance_types, schema, 1) }

\* lines 188-200
convert_schema_type_to_zod(instance_type, schema) ==
    IF instance_type.single
    THEN convert_single_instance_type_schema_to_zod(instance_type.types[1], schema)
    ELSE convert_union_type_schema_to_zod(instance_type.types, schema)

\* convert_schema_object_to_zod looking at enum_values before reference
convert_schema_object_to_zod_enum_first(schema) ==
    IF is_some(schema.enum_values) THEN {convert_enum_values(unwrap(schema.enum_values))}
    ELSE IF is_some(schema.reference) THEN {convert_reference(unwrap(schema.reference))}
    ELSE IF is_some(schema.one_of) THEN convert_one_of(unwrap(schema.one_of))
    ELSE IF is_none(schema.instance_type) THEN {Absent}
    ELSE convert_schema_type_to_zod(unwrap(schema.instance_type), schema)

\* lines 102-151
convert_schema_object_to_zod(schema) ==
    IF is_some(schema.reference) THEN {convert_reference(unwrap(schema.reference))}
    ELSE IF is_some(schema.enum_values) THEN {convert_enum_values(unwrap(schema.enum_values))}
    ELSE IF is_some(schema.one_of) THEN convert_one_of(unwrap(schema.one_of))
    ELSE IF is_none(schema.instance_type) THEN {Absent}
    ELSE convert_schema_type_to_zod(unwrap(schema.instance_type), schema)

(***************************** merge_schemas ******************************)
Names == {"A", "B", "N", "X"}

NoDefinitions == [id \in Names |-> None]

\* RootSchema::default()
DefaultRootSchema == [schema |-> EmptySchema, definitions |-> NoDefinitions]

\* Map::insert: the entry replaces whatever the key held
insert(map, id, value) == [map EXCEPT ![id] = Some(value)]

\* lines 41-43: every entry of `later` is inserted into `map`
extend(map, later) ==
    [id \in Names |-> IF is_some(later[id]) THEN later[id] ELSE map[id]]

\* merge_titled inserting the root before the input's definitions
merge_titled_root_first(into, schema) ==
    [into EXCEPT !.definitions =
        extend(insert(into.definitions, unwrap(schema.schema.title), schema.schema),
               schema.definitions)]

\* lines 38-47: one iteration of the loop, on an input that carries a title
merge_titled(into, schema) ==
    [into EXCEPT !.definitions =
        insert(extend(into.definitions, schema.definitions),
               unwrap(schema.schema.title), schema.schema)]

\* merge_one taking the definitions of an input that carries no title
merge_one_keeps_untitled(into, schema) ==
    IF is_none(schema.schema.title)
    THEN [into EXCEPT !.definitions = extend(into.definitions, schema.definitions)]
    ELSE merge_titled(into, schema)

\* lines 37-48: one iteration of the loop
merge_one(into, schema) ==
    IF is_none(schema.schema.title) THEN into ELSE merge_titled(into, schema)

\* lines 35-51: the whole function
RECURSIVE merge_from(_, _)
merge_from(into, inputs) ==
    IF inputs = <<>> THEN into
    ELSE merge_from(merge_one(into, Head(inputs)), Tail(inputs))

merge_schemas(inputs) == merge_from(DefaultRootSchema, inputs)

(********************************* convert *********************************)
NoOutput == [id \in Names |-> None]

\* statements with the type alias ahead of the binding
statements_alias_first(id, generated) ==
    "export type " \o id \o " = z.infer<typeof " \o id \o ">;\n"
    \o "export const " \o id \o " = " \o generated \o ";\n"

\* lines 96-97
statements(id, generated) ==
    "export const " \o id \o " = " \o generated \o ";\n"
    \o "export type " \o id \o " = z.infer<typeof " \o id \o ">;\n"

defined(map) == {id \in Names : is_some(map[id])}

(******************************* input pools *******************************)
SeqsUpTo(S, n) == UNION {[1..k -> S] : k \in 0..n}

Number(repr) == [kind |-> "number", repr |-> repr]
String(repr) == [kind |-> "string", repr |-> repr]
Values == {Number("1"), Number("5"), String("a")}

Categories == {"null", "boolean", "object", "array", "number", "string", "integer"}

Typed(t) == [EmptySchema EXCEPT !.instance_type = Some(Single(t))]

\* children: one that is absent, one that panics, two that yield text
Children == {EmptySchema, Typed("object"), Typed("number"), Typed("string")}

Distinct(properties) ==
    \A i, j \in DOMAIN properties :
        properties[i].name = properties[j].name => i = j

ObjectWith(properties, additional) ==
    [EmptySchema EXCEPT
        !.instance_type = Some(Single("object")),
        !.object = Some([properties |-> properties,
                         additional_properties |-> additional])]

PropertyMaps(names, children, n) ==
    {p \in SeqsUpTo([name : names, schema : children], n) : Distinct(p)}

ObjectNodes ==
    {ObjectWith(p, a) :
        p \in PropertyMaps({"a", "b", "type"}, Children, MaxLen),
        a \in {None} \cup {Some(c) : c \in Children}}

ItemsPool ==
    {None}
    \cup {Some([single |-> TRUE, schemas |-> <<c>>]) : c \in Children}
    \cup {Some([single |-> FALSE, schemas |-> s]) : s \in SeqsUpTo(Children, MaxLen)}

LengthPool == {None, Some(1), Some(2)}

ArrayNodes ==
    {[EmptySchema EXCEPT
        !.instance_type = Some(Single("array")),
        !.array = Some([items |-> i, min_items |-> lo, max_items |-> hi])] :
        i \in ItemsPool, lo \in LengthPool, hi \in LengthPool}

\* property names in the map's order, each property a number
FieldRecord(names) ==
    ObjectWith([i \in DOMAIN names |-> [name |-> names[i], schema |-> Typed("number")]],
               None)

FieldLists ==
    {<<>>, <<"a">>, <<"b">>, <<"kind">>, <<"type">>, <<"a", "b">>, <<"a", "kind">>,
     <<"a", "type">>, <<"b", "kind">>, <<"b", "type">>, <<"kind", "type">>}

Branches ==
    {FieldRecord(names) : names \in FieldLists}
    \cup {EmptySchema, Typed("string"), Typed("object"),
          ObjectWith(<<[name |-> "a", schema |-> Typed("object")]>>, None),
          ObjectWith(<<[name |-> "a", schema |-> EmptySchema]>>, None),
          [FieldRecord(<<"a">>) EXCEPT !.instance_type = Some(Multiple(<<"object">>))]}

OneOfNodes ==
    {[EmptySchema EXCEPT !.one_of = Some(b)] : b \in SeqsUpTo(Branches, MaxLen)}

References ==
    {<<DefinitionsPrefix, "Foo">>, <<DefinitionsPrefix, "Bar">>, <<"Foo">>,
     <<"other.json", DefinitionsPrefix, "Foo">>}

ReferenceNodes == {[EmptySchema EXCEPT !.reference = Some(r)] : r \in References}

EnumNodes ==
    {[EmptySchema EXCEPT !.enum_values = Some(v)] : v \in SeqsUpTo(Values, MaxLen)}

Formats == {None, Some("date-time"), Some("uuid")}

TypedNodes ==
    {[EmptySchema EXCEPT !.instance_type = Some(Single(t)),
                         !.format = f, !.const_value = c] :
        t \in Categories, f \in Formats, c \in {None, Some(String("a"))}}

MultiTypedNodes ==
    {[EmptySchema EXCEPT !.instance_type = Some(Multiple(ts)), !.object = o, !.array = a] :
        ts \in SeqsUpTo({"null", "string", "object", "array"}, MaxLen),
        o \in {None, FieldRecord(<<"a">>).object,
               ObjectWith(<<[name |-> "a", schema |-> EmptySchema]>>, None).object},
        a \in {None, Some([items |-> None, min_items |-> None, max_items |-> None])}}

\* nodes with several of the classified fields populated at once
OverlapNodes ==
    {[EmptySchema EXCEPT !.reference = r, !.enum_values = e, !.one_of = o,
                         !.instance_type = t, !.const_value = c, !.format = f,
                         !.object = p] :
        r \in {None, Some(<<DefinitionsPrefix, "Foo">>)},
        e \in {None, Some(<<Number("5")>>), Some(<<Number("1"), String("a")>>)},
        o \in {None, Some(<<Typed("string"), FieldRecord(<<"type">>)>>)},
        t \in {None, Some(Single("string")), Some(Single("object")),
               Some(Multiple(<<"string", "null">>))},
        c \in {None, Some(String("a"))},
        f \in {None, Some("date-time")},
        p \in {None, FieldRecord(<<"a">>).object}}

Nodes ==
    {EmptySchema} \cup ObjectNodes \cup ArrayNodes \cup OneOfNodes \cup ReferenceNodes
    \cup EnumNodes \cup TypedNodes \cup MultiTypedNodes \cup OverlapNodes

\* documents handed to convert directly: one definition drawn from Nodes, or
\* two definitions drawn from Children
Table(n, x) == [id \in Names |-> IF id = "N" THEN n ELSE IF id = "X" THEN x ELSE None]

ConvertInputs ==
    {[schema |-> Typed("string"), definitions |-> Table(Some(n), None)] : n \in Nodes}
    \cup {[schema |-> r, definitions |-> Table(n, x)] :
            r \in {EmptySchema, Typed("string")},
            n \in {None} \cup {Some(c) : c \in Children},
            x \in {None} \cup {Some(c) : c \in Children}}

\* documents handed to merge_schemas
Titled(schema, title) == [schema EXCEPT !.title = title]

MergeTables ==
    {NoDefinitions,
     [NoDefinitions EXCEPT !["X"] = Some(Typed("number"))],
     [NoDefinitions EXCEPT !["X"] = Some(Typed("string"))],
     [NoDefinitions EXCEPT !["A"] = Some(Typed("string"))],
     [NoDefinitions EXCEPT !["B"] = Some(Typed("number"))]}

MergeInputs ==
    {[schema |-> Titled(r, t), definitions |-> d] :
        r \in {Typed("boolean"), Typed("null")},
        t \in {None, Some("A"), Some("B")},
        d \in MergeTables}

(****************************** state machine ******************************)
NoCall == [id |-> "", result |-> Absent]

Init ==
    /\ \/ /\ pc = "merge"
          /\ schemas \in SeqsUpTo(MergeInputs, MaxDocs)
          /\ merged = DefaultRootSchema
       \/ /\ pc = "ready"
          /\ schemas = <<>>
          /\ merged \in ConvertInputs
    /\ idx = 1
    /\ todo = {}
    /\ definitions = NoOutput
    /\ last = NoCall
    /\ run = 0
    /\ previous = NoOutput

\* merge_schemas, lines 38-39: an input without a title is passed over
MergeSkip ==
    /\ pc = "merge"
    /\ idx <= Len(schemas)
    /\ is_none(schemas[idx].schema.title)
    /\ merged' = merge_one(merged, schemas[idx])
    /\ idx' = idx + 1
    /\ UNCHANGED <<schemas, pc, todo, definitions, last, run, previous>>

\* merge_schemas, lines 41-47: the input's definitions, then its root
MergeInsert ==
    /\ pc = "merge"
    /\ idx <= Len(schemas)
    /\ is_some(schemas[idx].schema.title)
    /\ merged' = merge_one(merged, schemas[idx])
    /\ idx' = idx + 1
    /\ UNCHANGED <<schemas, pc, todo, definitions, last, run, previous>>

\* merge_schemas, line 50
MergeReturn ==
    /\ pc = "merge"
    /\ idx > Len(schemas)
    /\ pc' = "ready"
    /\ UNCHANGED <<schemas, idx, merged, todo, definitions, last, run, previous>>

\* convert, line 78: a call of convert on the document
ConvertCall ==
    /\ pc \in {"ready", "done"}
    /\ run < MaxRuns
    /\ pc' = "convert"
    /\ run' = run + 1
    /\ previous' = definitions
    /\ definitions' = NoOutput
    /\ todo' = defined(merged.definitions)
    /\ last' = NoCall
    /\ UNCHANGED <<schemas, idx, merged>>

\* add_converted_schema, lines 94-99: the definition converts
AddConverted ==
    /\ pc = "convert"
    /\ \E id \in todo :
        \E generated \in convert_schema_object_to_zod(unwrap(merged.definitions[id])) :
            /\ generated.tag = "Some"
            /\ definitions' = insert(definitions, id, statements(id, generated.text))
            /\ last' = [id |-> id, result |-> generated]
            /\ todo' = todo \ {id}
    /\ UNCHANGED <<schemas, idx, merged, pc, run, previous>>

\* add_converted_schema, line 94: the definition does not convert
AddOmitted ==
    /\ pc = "convert"
    /\ \E id \in todo :
        \E generated \in convert_schema_object_to_zod(unwrap(merged.definitions[id])) :
            /\ generated.tag = "None"
            /\ last' = [id |-> id, result |-> generated]
            /\ todo' = todo \ {id}
    /\ UNCHANGED <<schemas, idx, merged, pc, definitions, run, previous>>

\* an unwrap() on None inside the conversion: the call of convert unwinds
AddPanicked ==
    /\ pc = "convert"
    /\ \E id \in todo :
        \E generated \in convert_schema_object_to_zod(unwrap(merged.definitions[id])) :
            /\ generated.tag = "Panic"
            /\ todo' = todo \ {id}
    /\ pc' = "panicked"
    /\ UNCHANGED <<schemas, idx, merged, definitions, last, run, previous>>

\* convert, line 84
ConvertReturn ==
    /\ pc = "convert"
    /\ todo = {}
    /\ pc' = "done"
    /\ UNCHANGED <<schemas, idx, merged, todo, definitions, last, run, previous>>

Next ==
    \/ MergeSkip
    \/ MergeInsert
    \/ MergeReturn
    \/ ConvertCall
    \/ AddConverted
    \/ AddOmitted
    \/ AddPanicked
    \/ ConvertReturn

Spec == Init /\ [][Next]_vars

(******************************** properties *******************************)
\* The properties below speak of `last`, the most recent single-node conversion
\* that returned (a conversion that panics returns nothing), of `merged` and of
\* the mapping `definitions` that convert returns.
Called == last.id # ""
LastSchema == unwrap(merged.definitions[last.id])

ByReference(s) == is_some(s.reference)
ByEnum(s) == is_none(s.reference) /\ is_some(s.enum_values)
ByOneOf(s) == is_none(s.reference) /\ is_none(s.enum_values) /\ is_some(s.one_of)
ByType(s) ==
    /\ is_none(s.reference) /\ is_none(s.enum_values) /\ is_none(s.one_of)
    /\ is_some(s.instance_type)

StartsWith(text, prefix) ==
    Len(text) >= Len(prefix) /\ SubSeq(text, 1, Len(prefix)) = prefix

Tags(s) == {r.tag : r \in convert_schema_object_to_zod(s)}
ConvertsToText(s) == Tags(s) = {"Some"}
ConvertsToAbsence(s) == Tags(s) = {"None"}

\* the texts "t1, t2, ... , " of the nodes from position i on that convert to
\* text, in their order
RECURSIVE Listed(_, _)
Listed(nodes, i) ==
    IF i > Len(nodes) THEN {""}
    ELSE LET texts == {r.text : r \in {x \in convert_schema_object_to_zod(nodes[i]) :
                                          x.tag = "Some"}}
         IN  IF texts = {} THEN Listed(nodes, i + 1)
             ELSE {t \o ", " \o l : t \in texts, l \in Listed(nodes, i + 1)}

\* a JSON scalar as it is printed: a string in double quotes, a number bare
Json(value) ==
    IF value.kind = "string" THEN "\"" \o value.repr \o "\"" ELSE value.repr

RECURSIVE JsonList(_, _)
JsonList(values, i) ==
    IF i > Len(values) THEN ""
    ELSE Json(values[i]) \o ", " \o JsonList(values, i + 1)

Literal(value) == "z.literal(" \o Json(value) \o ")"

RECURSIVE Repeat(_, _)
Repeat(text, n) == IF n = 0 THEN "" ELSE text \o Repeat(text, n - 1)

(* C1: convert never raises: every call of convert completes, and every     *)
(* single-node conversion ends in text or in absence, never in a panic.     *)
C1_ConvertNeverRaises == pc # "panicked"

OnlyReference(s) == [EmptySchema EXCEPT !.reference = s.reference]
OnlyOneOf(s) == [EmptySchema EXCEPT !.one_of = s.one_of]

(* C2: classification is first-match-wins in the order reference,           *)
(* enumValues, oneOf, instanceType. A reference "#/definitions/Name" yields *)
(* z.lazy(() => Name) whatever else is populated; otherwise enumValues      *)
(* yields z.literal for one value and z.enum of the values in order; else   *)
(* the result is that of the node's oneOf alone; constValue is read only    *)
(* under instanceType, where every category becomes z.literal; a node with  *)
(* none of the four converts to absence.                                    *)
C2_FirstMatchWins ==
    Called =>
        LET s == LastSchema
            r == last.result
        IN  /\ ByReference(s) =>
                /\ r \in convert_schema_object_to_zod(OnlyReference(s))
                /\ (/\ Len(unwrap(s.reference)) = 2
                    /\ unwrap(s.reference)[1] = DefinitionsPrefix
                    /\ unwrap(s.reference)[2] # DefinitionsPrefix)
                        => r = Text("z.lazy(() => " \o unwrap(s.reference)[2] \o ")")
            /\ ByEnum(s) =>
                r = Text(IF Len(unwrap(s.enum_values)) = 1
                         THEN Literal(unwrap(s.enum_values)[1])
                         ELSE "z.enum([" \o JsonList(unwrap(s.enum_values), 1) \o "])")
            /\ ByOneOf(s) => r \in convert_schema_object_to_zod(OnlyOneOf(s))
            /\ (ByType(s) /\ is_some(s.const_value)) =>
                r = Text(IF unwrap(s.instance_type).single
                         THEN Literal(unwrap(s.const_value))
                         ELSE "z.union(["
                              \o Repeat(Literal(unwrap(s.const_value)) \o ", ",
                                        Len(unwrap(s.instance_type).types))
                              \o "])")
            /\ (~ByReference(s) /\ ~ByEnum(s) /\ ~ByOneOf(s) /\ ~ByType(s)) => r = Absent

C2_Witness ==
    /\ Called
    /\ is_some(LastSchema.reference) /\ is_some(LastSchema.enum_values)
    /\ is_some(LastSchema.one_of) /\ is_some(LastSchema.instance_type)
    /\ is_some(LastSchema.const_value)
    /\ last.result = Text("z.lazy(() => Foo)")

FixedShape(s) ==
    /\ ByType(s) /\ is_none(s.const_value)
    /\ s.instance_type = Some(Single("object"))
    /\ is_some(s.object)
    /\ ~(/\ is_some(unwrap(s.object).additional_properties)
         /\ Len(unwrap(s.object).properties) = 0)

MultiCategory(s) ==
    ByType(s) /\ ~unwrap(s.instance_type).single

ArrayRule(s) ==
    /\ ByType(s) /\ is_none(s.const_value)
    /\ s.instance_type = Some(Single("array"))
    /\ is_some(s.array)
    /\ is_some(unwrap(s.array).items)

ItemSequence(s) ==
    /\ ArrayRule(s)
    /\ ~unwrap(unwrap(s.array).items).single
    /\ Len(unwrap(unwrap(s.array).items).schemas) > 1

FixedLength(s) ==
    /\ is_some(unwrap(s.array).min_items)
    /\ unwrap(s.array).min_items = unwrap(s.array).max_items

CategoryAbsent(s, i) ==
    {r.tag : r \in convert_single_instance_type_schema_to_zod(
                       unwrap(s.instance_type).types[i], s)} = {"None"}

UnionOpening(result) ==
    IF unwrap(result.infer).tag = "Some"
    THEN "z.discriminatedUnion('" \o unwrap(result.infer).text \o "', ["
    ELSE "z.union(["

(* C3: absence propagation. Strict: a fixed-shape object node converts to    *)
(* absence when one of its properties does, and a multi-category node when  *)
(* one of its categories does. Tolerant: a oneOf node converts to text      *)
(* whose branch list is the convertible branches in order, and an array     *)
(* whose items are a sequence of more than one schema converts to text      *)
(* listing the convertible items in order.                                  *)
C3_AbsencePropagation ==
    Called =>
        LET s == LastSchema
            r == last.result
        IN  /\ (/\ FixedShape(s)
                /\ \E i \in DOMAIN unwrap(s.object).properties :
                      ConvertsToAbsence(unwrap(s.object).properties[i].schema))
                    => r = Absent
            /\ (/\ MultiCategory(s)
                /\ \E i \in DOMAIN unwrap(s.instance_type).types : CategoryAbsent(s, i))
                    => r = Absent
            /\ ByOneOf(s) =>
                /\ r.tag = "Some"
                /\ \E l \in Listed(unwrap(s.one_of), 1) :
                      r.text = UnionOpening(r) \o l \o "])"
            /\ ItemSequence(s) =>
                /\ r.tag = "Some"
                /\ \E l \in Listed(unwrap(unwrap(s.array).items).schemas, 1) :
                      r.text = IF FixedLength(s)
                               THEN "z.tuple([" \o l \o "])"
                               ELSE "z.array(z.union([" \o l \o "]))"

C3_Witness ==
    /\ Called
    /\ ByOneOf(LastSchema)
    /\ \E i, j \in DOMAIN unwrap(LastSchema.one_of) :
          /\ i < j
          /\ ConvertsToAbsence(unwrap(LastSchema.one_of)[i])
          /\ ConvertsToText(unwrap(LastSchema.one_of)[j])
    /\ last.result.text = "z.union([z.string(), ])"

(* C4: when convert returns, the keys of its mapping are exactly the        *)
(* definition-table names whose node converts to text (the root is not      *)
(* converted, a failing definition leaves no entry), and the value under    *)
(* Name is "export const Name = <text>;" then "export type Name =           *)
(* z.infer<typeof Name>;".                                                  *)
C4_ConvertMapping ==
    pc = "done" =>
        \A id \in Names :
            /\ is_some(definitions[id]) <=>
                  /\ is_some(merged.definitions[id])
                  /\ ConvertsToText(unwrap(merged.definitions[id]))
            /\ is_some(definitions[id]) =>
                  \E r \in convert_schema_object_to_zod(unwrap(merged.definitions[id])) :
                      /\ r.tag = "Some"
                      /\ unwrap(definitions[id]) =
                            "export const " \o id \o " = " \o r.text \o ";\n"
                            \o "export type " \o id \o " = z.infer<typeof " \o id \o ">;\n"

C4_Witness ==
    /\ pc = "done"
    /\ ConvertsToText(merged.schema)
    /\ \E id, other \in Names :
          /\ is_some(definitions[id])
          /\ is_some(merged.definitions[other])
          /\ is_none(definitions[other])

(* C5: an array node whose minItems and maxItems are present and equal      *)
(* converts to a z.tuple expression for every form of its items, a single   *)
(* item schema included; with minItems absent it converts to z.array(item). *)
C5_EqualBoundsMakeTuple ==
    (Called /\ ArrayRule(LastSchema) /\ last.result.tag = "Some") =>
        /\ FixedLength(LastSchema) => StartsWith(last.result.text, "z.tuple(")
        /\ is_none(unwrap(LastSchema.array).min_items)
              => StartsWith(last.result.text, "z.array(")

PropertyNames(branch) ==
    IF branch.instance_type = Some(Single("object")) /\ is_some(branch.object)
    THEN {unwrap(branch.object).properties[i].name :
            i \in DOMAIN unwrap(branch.object).properties}
    ELSE {}

Candidates(branches) ==
    IF Len(branches) = 0 THEN {}
    ELSE {n \in PropertyNames(branches[1]) :
            \A i \in 2..Len(branches) : n \in PropertyNames(branches[i])}

(* C6: discriminator inference. An object-typed branch (instanceType the    *)
(* single category object) contributes its property names, any other branch *)
(* the empty set; the candidates are the names of the first branch's set    *)
(* that occur in every other set; the result is type if a candidate, else   *)
(* kind if a candidate, else some candidate, and absent exactly when there  *)
(* is no candidate; the node is emitted as z.discriminatedUnion('<field>',  *)
(* [...]) exactly when a field is returned and as z.union([...]) otherwise. *)
C6_DiscriminatorInference ==
    (Called /\ ByOneOf(LastSchema)) =>
        LET candidates == Candidates(unwrap(LastSchema.one_of))
            field == unwrap(last.result.infer)
            text == last.result.text
        IN  /\ "type" \in candidates => field = Text("type")
            /\ ("type" \notin candidates /\ "kind" \in candidates) => field = Text("kind")
            /\ field.tag = "Some" => field.text \in candidates
            /\ field.tag = "None" <=> candidates = {}
            /\ field.tag = "Some" <=>
                  StartsWith(text, "z.discriminatedUnion('" \o field.text \o "', [")
            /\ field.tag = "None" <=> StartsWith(text, "z.union([")

C6_Witness ==
    /\ Called
    /\ ByOneOf(LastSchema)
    /\ {"type", "kind"} \subseteq Candidates(unwrap(LastSchema.one_of))
    /\ Len(unwrap(LastSchema.one_of)) > 1
    /\ last.result.infer = Some(Text("type"))
    /\ StartsWith(last.result.text, "z.discriminatedUnion('type', [")

(* C7: the fallback discriminant is deterministic: two calls of convert on  *)
(* the same document return identical text for every definition.            *)
C7_SameTextOnEveryCall ==
    (pc = "done" /\ run > 1) => definitions = previous

HasTitle(doc) == is_some(doc.schema.title)
Merging == Len(schemas) > 0
WithoutUntitled == SelectSeq(schemas, HasTitle)

TwoTitled ==
    /\ pc # "merge" /\ Len(schemas) = 2
    /\ HasTitle(schemas[1]) /\ HasTitle(schemas[2])

Swapped == <<schemas[2], schemas[1]>>

(* C9 as stated: for two titled documents with different titles the merged  *)
C9_OrderOnlyOnTitleCollision ==
    TwoTitled =>
        /\ schemas[1].schema.title # schemas[2].schema.title
              => merged.definitions = merge_schemas(Swapped).definitions
        /\ schemas[1].schema.title = schemas[2].schema.title
              => merged.definitions[unwrap(schemas[2].schema.title)]
                    = Some(schemas[2].schema)

(* table is the same in both orders exactly when the entries the two        *)
(* documents write (their own tables, and their roots under their titles)   *)
(* agree on every key both write; with equal titles the entry under the     *)
(* title is the later document's root.                                      *)
Written(doc) ==
    [id \in Names |-> IF doc.schema.title = Some(id) THEN Some(doc.schema)
                      ELSE doc.definitions[id]]

Agree(a, b) ==
    \A id \in Names :
        (is_some(Written(a)[id]) /\ is_some(Written(b)[id]))
            => Written(a)[id] = Written(b)[id]

(* C9 amended: for two titled documents with different titles the merged    *)
C9_OrderOnlyOnConflict ==
    TwoTitled =>
        /\ schemas[1].schema.title # schemas[2].schema.title
              => (merged.definitions = merge_schemas(Swapped).definitions
                    <=> Agree(schemas[1], schemas[2]))
        /\ schemas[1].schema.title = schemas[2].schema.title
              => merged.definitions[unwrap(schemas[2].schema.title)]
                    = Some(schemas[2].schema)

C9_Witness ==
    /\ TwoTitled /\ pc = "ready"
    /\ schemas[1].schema.title # schemas[2].schema.title
    /\ defined(schemas[1].definitions) # {}
    /\ defined(schemas[1].definitions) = defined(schemas[2].definitions)
    /\ Agree(schemas[1], schemas[2])
    /\ merged.definitions = merge_schemas(Swapped).definitions

Intersection(branches) ==
    {n \in UNION {PropertyNames(branches[i]) : i \in DOMAIN branches} :
        \A i \in DOMAIN branches : n \in PropertyNames(branches[i])}

Reorderings(s) ==
    {[i \in DOMAIN s |-> s[f[i]]] :
        f \in {g \in [DOMAIN s -> DOMAIN s] :
                 \A i, j \in DOMAIN s : g[i] = g[j] => i = j}}

(* C10: the candidate set of discriminator inference is the intersection of *)
(* all branches' property-name sets, whichever branch is first: permuting   *)
(* the branches changes neither whether a discriminant is found nor, when   *)
(* type or kind is a candidate, which one; and a oneOf whose one branch is  *)
(* object-typed with at least one property is emitted as a discriminated    *)
(* union.                                                                   *)
C10_SymmetricCandidates ==
    (Called /\ ByOneOf(LastSchema) /\ Len(unwrap(LastSchema.one_of)) > 0) =>
        LET branches == unwrap(LastSchema.one_of)
            field == unwrap(last.result.infer)
            all == Intersection(branches)
        IN  /\ field.tag = "Some" => field.text \in all
            /\ field.tag = "None" <=> all = {}
            /\ \A permuted \in Reorderings(branches) :
                  \A other \in all_schemas_share_a_field(permuted) :
                      /\ other.tag = field.tag
                      /\ (all \cap {"type", "kind"} # {}) => other = field
            /\ (/\ Len(branches) = 1
                /\ branches[1].instance_type = Some(Single("object"))
                /\ PropertyNames(branches[1]) # {})
                  => /\ field.tag = "Some"
                     /\ StartsWith(last.result.text, "z.discriminatedUnion('")

C10_Witness ==
    /\ Called
    /\ ByOneOf(LastSchema)
    /\ Len(unwrap(LastSchema.one_of)) = 2
    /\ PropertyNames(unwrap(LastSchema.one_of)[1]) = {"kind"}
    /\ PropertyNames(unwrap(LastSchema.one_of)[2]) = {"a", "kind"}
    /\ last.result.infer = Some(Text("kind"))

====
